---- MODULE Spec2Model ----
(***************************************************************************)
(* A model of freshdesk-scrape.py: the rate-limit check, the two paginated *)
(* fetches, the persistence store (tables tickets and conversations of     *)
(* tickets.db), the four run modes of the main script and the final        *)
(* commit.  One behaviour is one run of the script on tickets.db.          *)
(*                                                                         *)
(* The Freshdesk server is the environment.  Its answer to a request is a  *)
(* network error (requests raises a RequestException), or a response with  *)
(* a status code, an X-Ratelimit-Remaining header and a body.  The content *)
(* of a paged collection is fixed while one paginated fetch walks it.      *)
(***************************************************************************)
EXTENDS Integers, Sequences, FiniteSets, TLC

\* ------------------------------------------------------------------ bounds
MaxApiTickets == 3     \* tickets in the server's ticket list
MaxProbes == 2         \* probes of one rate-limit pause the model follows
MaxFaults == 1         \* requests of one run that fail or get an error status
PerPage == 1           \* items on one page of the server's answer

\* --------------------------------------------------------- program constants
max_pages == 300       \* fetch_tickets: max_pages = 300
args_limit == 1500     \* --limit, default=1500

\* ------------------------------------------------------------- sample data
TicketIds == {1, 2}
ConvIds == {1, 2}
Stamps == {1, 2}       \* created_at / updated_at values, in time order

\* Description texts, one character per element.
CR == "CR"
LF == "LF"
SP == "SP"
PlainText == <<"a">>
MailText == <<"h", CR, LF, LF, SP, "b", LF, LF, "c", SP>>
Descriptions == {PlainText, MailText}

\* A ticket as the API returns it.  The fields created_at, subject and the two
\* custom fields are copied into the row exactly as updated_at is, and are
\* not kept apart from it.
Tickets == [id : TicketIds, updated_at : Stamps, description_text : Descriptions]

\* A conversation as the API returns it.
Conversations ==
    [id : ConvIds, created_at : Stamps, incoming : BOOLEAN, private : BOOLEAN,
     body_text : {"x", "y"}]

\* The body of an error response, decoded: a JSON object.  Extending a list by
\* a dict appends its keys, which are strings and no conversations.
ErrorKey == "message"

\* ------------------------------------------------------------ sequences
Range(s) == {s[i] : i \in 1..Len(s)}

SeqsUpTo(S, n) == UNION {[1..k -> S] : k \in 0..n}

Min(a, b) == IF a <= b THEN a ELSE b

RECURSIVE SelectIdsAbove(_, _, _)
\* A filter that leaves the lower bound out.
SelectIdsAbove(ts, int1, int2) ==
    IF ts = <<>> THEN <<>>
    ELSE LET t == Head(ts)
             rest == SelectIdsAbove(Tail(ts), int1, int2)
         IN IF int1 < t.id /\ t.id <= int2 THEN <<t.id>> \o rest ELSE rest

RECURSIVE SelectIds(_, _, _)
\* [ticket['id'] for ticket in all_tickets if int1 <= ticket['id'] <= int2]
SelectIds(ts, int1, int2) ==
    IF ts = <<>> THEN <<>>
    ELSE LET t == Head(ts)
             rest == SelectIds(Tail(ts), int1, int2)
         IN IF int1 <= t.id /\ t.id <= int2 THEN <<t.id>> \o rest ELSE rest

\* ------------------------------------------------------ strip_email_headers
\* Length of the match of \r?\n at position i of s (0: no match).
NewlineAt(s, i) ==
    IF i <= Len(s) /\ s[i] = LF THEN 1
    ELSE IF i + 1 <= Len(s) /\ s[i] = CR /\ s[i + 1] = LF THEN 2
    ELSE 0

RECURSIVE RunEnd(_, _, _)
\* Greedy (\r?\n)* from position i, n repetitions matched so far:
\* <<first position after the run, repetitions>>.
RunEnd(s, i, n) ==
    IF NewlineAt(s, i) = 0 THEN <<i, n>>
    ELSE RunEnd(s, i + NewlineAt(s, i), n + 1)

RECURSIVE SearchEnd(_, _)
\* re.search(r"(\r?\n){2,}", s) from position i: match.end() as a position of
\* s, or 0 when nothing matches.
SearchEnd(s, i) ==
    IF i > Len(s) THEN 0
    ELSE IF RunEnd(s, i, 0)[2] >= 2 THEN RunEnd(s, i, 0)[1]
    ELSE SearchEnd(s, i + 1)

IsSpace(c) == c \in {CR, LF, SP}

RECURSIVE LStrip(_)
LStrip(s) == IF s # <<>> /\ IsSpace(Head(s)) THEN LStrip(Tail(s)) ELSE s

RECURSIVE RStrip(_)
RStrip(s) ==
    IF s # <<>> /\ IsSpace(s[Len(s)]) THEN RStrip(SubSeq(s, 1, Len(s) - 1)) ELSE s

Strip(s) == RStrip(LStrip(s))

strip_email_headers(description) ==
    LET e == SearchEnd(description, 1)
    IN IF e # 0 THEN Strip(SubSeq(description, e, Len(description)))
       ELSE description

\* ------------------------------------------------------------------ store
\* A row of table tickets; other_ticket_info is json.dumps(ticket).
TicketRow(ticket) ==
    [id |-> ticket.id,
     updated_at |-> ticket.updated_at,
     description |-> strip_email_headers(ticket.description_text),
     other_ticket_info |-> ticket]

\* SELECT * FROM tickets WHERE id = ?  ... fetchone() is None
TicketAbsent(tbl, id) == \A i \in 1..Len(tbl) : tbl[i].id # id

\* A store_ticket that looks for the whole row instead of the identifier.
store_ticket_by_row(ticket, tbl) ==
    IF \A i \in 1..Len(tbl) : tbl[i] # TicketRow(ticket)
    THEN <<Append(tbl, TicketRow(ticket)), TRUE>>
    ELSE <<tbl, FALSE>>

\* store_ticket: <<the table afterwards, the value returned>>
store_ticket(ticket, tbl) ==
    IF TicketAbsent(tbl, ticket.id)
    THEN <<Append(tbl, TicketRow(ticket)), TRUE>>
    ELSE <<tbl, FALSE>>

Persona(isIncoming, isPrivate) ==
    IF isIncoming /\ ~isPrivate THEN "Customer"
    ELSE IF isIncoming /\ isPrivate THEN "Aqua Development Discussion"
    ELSE IF ~isIncoming /\ ~isPrivate THEN "Aqua Support Agent"
    ELSE IF ~isIncoming /\ isPrivate THEN "Aqua Internal Discussion"
    ELSE "Unknown User"

\* A row of table conversations; the AUTOINCREMENT id is the row's position.
ConversationRow(ticket_id, conversation) ==
    [conversation_id |-> conversation.id,
     ticket_id |-> ticket_id,
     created_at |-> conversation.created_at,
     persona |-> Persona(conversation.incoming, conversation.private),
     body |-> conversation.body_text]

\* SELECT * FROM conversations WHERE conversation_id = ?  ... fetchone() is None
ConversationAbsent(tbl, id) == \A i \in 1..Len(tbl) : tbl[i].conversation_id # id

\* A store_conversation that looks for the identifier under the same ticket
\* only.
store_conversation_by_ticket(ticket_id, conversation, tbl) ==
    IF \A i \in 1..Len(tbl) : ~(tbl[i].conversation_id = conversation.id
                                 /\ tbl[i].ticket_id = ticket_id)
    THEN Append(tbl, ConversationRow(ticket_id, conversation))
    ELSE tbl

\* conversation['id'] raises when the object handed over is no conversation:
\* TypeError on a string (a key of an error body), KeyError on a dict without
\* the key 'id' (an entry of fetch_ticket_range's result).
StoreConversationError(conversation) ==
    IF "id" \in DOMAIN conversation THEN "none"
    ELSE IF "str" \in DOMAIN conversation THEN "TypeError"
    ELSE "KeyError"

\* store_conversation, on an object with the key 'id': the table afterwards.
store_conversation(ticket_id, conversation, tbl) ==
    IF ConversationAbsent(tbl, conversation.id)
    THEN Append(tbl, ConversationRow(ticket_id, conversation))
    ELSE tbl

\* ----------------------------------------------------------------- export
\* An export that leaves out one of the two personas only.
OneInternalPersona == {"Aqua Internal Discussion"}

InternalPersonas == {"Aqua Development Discussion", "Aqua Internal Discussion"}

\* The positions of the rows SELECT ... WHERE ticket_id = ? finds.
RowsOf(tbl, ticket_id) == {i \in 1..Len(tbl) : tbl[i].ticket_id = ticket_id}

\* ORDER BY created_at: every order of the rows with created_at ascending
\* (SQL leaves the order of rows with equal keys open).
OrdersBy(tbl, rows) ==
    {o \in [1..Cardinality(rows) -> rows] :
        /\ \A j, k \in DOMAIN o : j # k => o[j] # o[k]
        /\ \A j, k \in DOMAIN o : j < k => tbl[o[j]].created_at <= tbl[o[k]].created_at}

RECURSIVE ConversationData(_, _)
\* The loop over the rows fetched, in order o: internal personas are skipped.
ConversationData(tbl, o) ==
    IF o = <<>> THEN <<>>
    ELSE LET r == tbl[Head(o)]
             rest == ConversationData(tbl, Tail(o))
         IN IF r.persona \in InternalPersonas THEN rest
            ELSE <<[conversation_id |-> r.conversation_id, created_at |-> r.created_at,
                    persona |-> r.persona, body |-> r.body]>> \o rest

\* SELECT * FROM tickets scans the table in rowid order, and the rowid of
\* tickets is its INTEGER PRIMARY KEY.
ScanTickets(tbl) == SortSeq(tbl, LAMBDA a, b : a.id < b.id)

\* tickets_data, given for every ticket row the order in which its
\* conversation rows were fetched.
TicketsData(ttbl, ctbl, order) ==
    LET scan == ScanTickets(ttbl)
    IN [i \in 1..Len(scan) |->
          [ticket_id |-> scan[i].id,
           updated_at |-> scan[i].updated_at,
           description |-> scan[i].description,
           conversations |-> ConversationData(ctbl, order[i])]]

\* ------------------------------------------------------------- environment
ErrorStatuses == {500}
None == [none |-> TRUE]

\* <<X-Ratelimit-Remaining, X-Ratelimit-Total>> of a probe; <<0, 1>> are the
\* defaults taken when the headers are missing.
ProbeHeaders == {<<0, 1>>, <<4499, 5000>>, <<4500, 5000>>}

Args ==
    [updated_since : BOOLEAN, all : BOOLEAN, export : BOOLEAN,
     range : {None} \cup [low : TicketIds, high : TicketIds]]

\* Page p of a collection: the server cuts it into pages of PerPage items.
PageOf(list, p) ==
    SubSeq(list, (p - 1) * PerPage + 1, Min(p * PerPage, Len(list)))

\* A test that every answered probe passes.
RateLimitAnswered(new_remaining, new_total) == new_remaining >= 0

\* new_remaining >= 0.9 * new_total.  For integers below 2^52 the double
\* product 0.9 * t compares with an integer r as 9t/10 does.
RateLimitReset(new_remaining, new_total) == 10 * new_remaining >= 9 * new_total

\* The if/elif chain of the main script.
Mode(args) ==
    IF args.updated_since THEN "updated_since"
    ELSE IF args.all THEN "all"
    ELSE IF args.range # None THEN "range"
    ELSE IF args.export THEN "export"
    ELSE "none"

SyncModes == {"updated_since", "all", "range"}

\* The sequences over S in which no identifier occurs twice.
NoRepeats(S) ==
    {s \in SeqsUpTo(S, Cardinality(S)) :
        \A i, j \in 1..Len(s) : i # j => s[i].id # s[j].id}

\* What the server may hold and answer, and how the script may be invoked,
\* in each environment considered:
\*   "script"  any arguments; the server reports quota above the limit;
\*   "quota"   any arguments; the server may report quota at the limit; at
\*             most one ticket, with at most one conversation;
\*   "store"   no run: store calls on one connection, whose arguments differ
\*             in every field the tables keep;
\*   "export"  export runs, on the databases the store functions can build
\*             from conversations of every persona and time order;
\*   "runs"    updated_since and all runs, one after the other; every
\*             conversation belongs to one ticket, as the ids of Freshdesk
\*             do.
TicketSamples(e) ==
    IF e = "store"
    THEN {t \in Tickets : t.description_text = MailText <=> t.updated_at = 2}
    ELSE {t \in Tickets : t.updated_at = 1 /\ t.description_text = PlainText}

ConversationSamples(e) ==
    IF e = "store"
    THEN {c \in Conversations : c.incoming /\ ~c.private
                                /\ (c.body_text = "y" <=> c.created_at = 2)}
    ELSE IF e = "export"
    THEN {c \in Conversations : c.body_text = "x"}
    ELSE {c \in Conversations : c.created_at = c.id /\ c.incoming /\ ~c.private
                                /\ c.body_text = "x"}

Invocations(e) ==
    IF e = "export" THEN {a \in Args : Mode(a) = "export"}
    ELSE IF e = "runs" THEN {a \in Args : Mode(a) \in {"updated_since", "all"}}
    ELSE Args

\* The server's ticket list; a ticket may be listed more than once.
TicketLists(e) ==
    IF e = "quota" THEN {s \in NoRepeats(TicketSamples(e)) : Len(s) <= 1}
    ELSE SeqsUpTo(TicketSamples(e), MaxApiTickets)

\* The conversations the server holds for one ticket.
ConversationLists(e) ==
    IF e = "quota" THEN {s \in NoRepeats(ConversationSamples(e)) : Len(s) <= 1}
    ELSE NoRepeats(ConversationSamples(e))

\* The conversations of ticket tid in the "runs" environment: their ids are
\* 2 tid - 1 and 2 tid.
OwnedConversations(tid) ==
    {[id |-> 2 * tid - k, created_at |-> 1, incoming |-> TRUE, private |-> FALSE,
      body_text |-> "x"] : k \in {0, 1}}

\* The conversations the server holds for ticket tid.
ConversationsOf(e, tid) ==
    IF e = "runs" THEN NoRepeats(OwnedConversations(tid)) ELSE ConversationLists(e)

\* X-Ratelimit-Remaining of a response
Remainings(e) ==
    IF e = "quota" THEN {args_limit, args_limit + 1} ELSE {args_limit + 1}

RECURSIVE TicketTablesFrom(_, _)
\* The tickets tables that store_ticket calls build from those of S.
TicketTablesFrom(S, e) ==
    LET T == S \cup {store_ticket(t, tbl)[1] : t \in TicketSamples(e), tbl \in S}
    IN IF T = S THEN S ELSE TicketTablesFrom(T, e)

RECURSIVE ConversationTablesFrom(_, _)
\* The conversations tables that store_conversation calls build from those of S.
ConversationTablesFrom(S, e) ==
    LET T == S \cup {store_conversation(tid, c, tbl) :
                        tid \in TicketIds, c \in ConversationSamples(e), tbl \in S}
    IN IF T = S THEN S ELSE ConversationTablesFrom(T, e)

EmptyDb == [tickets |-> <<>>, conversations |-> <<>>]

\* The database files earlier store calls, committed, can have left.
Databases(e) ==
    [tickets : TicketTablesFrom({<<>>}, e),
     conversations : ConversationTablesFrom({<<>>}, e)]

\* ------------------------------------------------------------------ state
VARIABLES
    env,                \* which servers and invocations are considered
    db,                 \* tickets.db as committed: [tickets, conversations]
    tbl_tickets,        \* table tickets as the open connection sees it
    tbl_conversations,  \* table conversations as the open connection sees it
    pc,                 \* where the running script is
    mode,               \* the branch of the main if/elif chain taken
    range,              \* args.range in range mode: [low, high]
    error,              \* the exception that ended the run, or "none"
    apiTickets,         \* the server's ticket list during this run
    apiConvs,           \* the server's conversations of the ticket being fetched
    all_tickets,        \* what fetch_tickets returned
    idx,                \* position of the running for loop
    ticket_id,          \* fetch_conversations' argument
    page,               \* page counter of the running fetch
    acc,                \* items the running fetch has collected
    probes,             \* failed probes of the running check_rate_limit
    response,           \* the response of the fetch's last request
    probe,              \* the response of check_rate_limit's last probe
    convs,              \* main: conversations = fetch_conversations(ticket_id)
    cidx,               \* position of the loop over convs
    valid_ticket_ids,   \* fetch_ticket_range: valid_ticket_ids
    ticket_range_data,  \* fetch_ticket_range: ticket_range_data
    log,                \* error messages written in this run
    events,             \* page requests, fetch results and store calls, in order
    exported,           \* tickets_data of the export branch
    faults,             \* requests of this run that failed or got an error status
    call                \* arguments and result of the last store call

fetchVars == <<ticket_id, page, acc, probes, apiConvs>>
mainVars == <<all_tickets, idx, convs, cidx, valid_ticket_ids, ticket_range_data>>
runVars == <<env, mode, range, apiTickets>>
vars == <<env, db, tbl_tickets, tbl_conversations, pc, mode, range, error,
          apiTickets, apiConvs, all_tickets, idx, ticket_id, page, acc, probes,
          response, probe, convs, cidx, valid_ticket_ids, ticket_range_data,
          log, events, exported, faults, call>>

\* No script is running and no connection is open.
NotStarted ==
    /\ tbl_tickets = <<>>
    /\ tbl_conversations = <<>>
    /\ mode = "none"
    /\ range = None
    /\ error = "none"
    /\ apiTickets = <<>>
    /\ apiConvs = <<>>
    /\ all_tickets = <<>>
    /\ idx = 0
    /\ ticket_id = 0
    /\ page = 0
    /\ acc = <<>>
    /\ probes = 0
    /\ response = None
    /\ probe = None
    /\ convs = <<>>
    /\ cidx = 0
    /\ valid_ticket_ids = <<>>
    /\ ticket_range_data = <<>>
    /\ log = {}
    /\ events = <<>>
    /\ exported = <<>>
    /\ faults = 0
    /\ call = None

\* ------------------------------------------------------------ control flow
\* Each of the following sets pc, error, fetchVars and mainVars.

NoFetch ==
    /\ ticket_id' = 0
    /\ page' = 0
    /\ acc' = <<>>
    /\ probes' = 0
    /\ apiConvs' = <<>>

\* An exception nothing catches ends the script before conn.commit().
Raise(kind) ==
    /\ pc' = "aborted"
    /\ error' = kind
    /\ UNCHANGED <<fetchVars, mainVars>>

\* fetch_conversations(tid) is entered; the server's conversations of the
\* ticket are whatever they are at this moment.
CallFetchConversations(tid) ==
    /\ pc' = "fetch_conversations"
    /\ error' = error
    /\ ticket_id' = tid
    /\ page' = 1
    /\ acc' = <<>>
    /\ probes' = 0
    /\ apiConvs' \in ConversationsOf(env, tid)

\* The for loop over the tickets (updated_since and all branches) goes on at i.
NextTicket(i) ==
    /\ pc' = IF i <= Len(all_tickets) THEN "loop" ELSE "commit"
    /\ error' = error
    /\ idx' = i
    /\ convs' = <<>>
    /\ cidx' = 0
    /\ NoFetch
    /\ UNCHANGED <<all_tickets, valid_ticket_ids, ticket_range_data>>

\* The for loop of fetch_ticket_range goes on at i, with ticket_range_data as
\* given; past the last id the function returns and main's loop over its
\* result begins.
RangeLoop(ids, i, data) ==
    /\ valid_ticket_ids' = ids
    /\ ticket_range_data' = data
    /\ UNCHANGED <<all_tickets, convs, cidx>>
    /\ IF i <= Len(ids)
       THEN /\ idx' = i
            /\ CallFetchConversations(ids[i])
       ELSE /\ idx' = 1
            /\ pc' = IF data = <<>> THEN "commit" ELSE "range_store"
            /\ error' = error
            /\ NoFetch

\* fetch_tickets returns.
ReturnTickets(tickets) ==
    /\ all_tickets' = tickets
    /\ idx' = 1
    /\ pc' = IF mode = "range" THEN "fetch_ticket_range"
             ELSE IF tickets = <<>> THEN "commit" ELSE "loop"
    /\ error' = error
    /\ NoFetch
    /\ UNCHANGED <<convs, cidx, valid_ticket_ids, ticket_range_data>>

\* fetch_tickets after check_rate_limit: data = response.json() to the end of
\* the loop body (page += 1 twice after a page with data), and the loop test.
TicketsBody ==
    LET data == PageOf(apiTickets, page)
    IN IF data # <<>> /\ page + 2 <= max_pages
       THEN /\ pc' = "fetch_tickets"
            /\ error' = error
            /\ page' = page + 2
            /\ acc' = acc \o data
            /\ probes' = 0
            /\ UNCHANGED <<ticket_id, apiConvs, mainVars>>
       ELSE ReturnTickets(IF data # <<>> THEN acc \o data ELSE acc)

\* The following also set log and events, the latter from evs, the events up
\* to and including the request.

\* A loop of main that goes to the next ticket without storing what
\* fetch_conversations returned.
ReturnConversationsUnstored(conversations, evs) ==
    /\ events' = Append(evs, [op |-> "conversations", id |-> ticket_id,
                              conversations |-> conversations, served |-> apiConvs])
    /\ UNCHANGED log
    /\ IF mode = "range"
       THEN RangeLoop(valid_ticket_ids, idx + 1,
                      Append(ticket_range_data,
                             [ticket_id |-> ticket_id, conversations |-> conversations]))
       ELSE NextTicket(idx + 1)

\* fetch_conversations returns: to fetch_ticket_range, which appends an entry
\* and goes to the next id, or to the loop of main, which stores what it got.
ReturnConversations(conversations, evs) ==
    /\ events' = Append(evs, [op |-> "conversations", id |-> ticket_id,
                              conversations |-> conversations, served |-> apiConvs])
    /\ UNCHANGED log
    /\ IF mode = "range"
       THEN RangeLoop(valid_ticket_ids, idx + 1,
                      Append(ticket_range_data,
                             [ticket_id |-> ticket_id, conversations |-> conversations]))
       ELSE IF conversations = <<>> THEN NextTicket(idx + 1)
       ELSE /\ pc' = "store_conversations"
            /\ error' = error
            /\ convs' = conversations
            /\ cidx' = 1
            /\ NoFetch
            /\ UNCHANGED <<all_tickets, idx, valid_ticket_ids, ticket_range_data>>

\* A RequestException leaves fetch_conversations: fetch_ticket_range catches
\* it, writes a message and goes to the next id; the loops of main do not.
ConversationsRequestException(evs) ==
    /\ events' = Append(evs, [op |-> "request_error", id |-> ticket_id])
    /\ IF mode = "range"
       THEN /\ RangeLoop(valid_ticket_ids, idx + 1, ticket_range_data)
            /\ log' = log \cup {"Error fetching data"}
       ELSE /\ Raise("RequestException")
            /\ UNCHANGED log

\* fetch_conversations after check_rate_limit: data = response.json() to the
\* end of the loop body.  The status code is not looked at, and the loop has
\* no other exit than an empty body.
ConversationsBody(data, evs) ==
    IF data # <<>>
    THEN /\ pc' = "fetch_conversations"
         /\ error' = error
         /\ page' = page + 1
         /\ acc' = acc \o data
         /\ probes' = 0
         /\ events' = evs
         /\ UNCHANGED <<log, ticket_id, apiConvs, mainVars>>
    ELSE ReturnConversations(acc, evs)

\* response.json(): the body of an error response decodes to an object, whose
\* keys extend() appends, or does not decode, and then the exception raised
\* is a RequestException or only a ValueError, depending on the version of
\* requests installed.
ConversationsDecode(body, evs) ==
    IF body = "undecodable"
    THEN \/ ConversationsRequestException(evs)
         \/ /\ Raise("ValueError")
            /\ events' = evs
            /\ UNCHANGED log
    ELSE ConversationsBody(IF body = "object" THEN <<[str |-> ErrorKey]>>
                           ELSE PageOf(apiConvs, page), evs)

\* ---------------------------------------------------------------- actions
\* A connection in autocommit mode: every insert is in the database file at
\* once.
TablesAutocommit(t, c) ==
    /\ tbl_tickets' = t
    /\ tbl_conversations' = c
    /\ db' = [tickets |-> t, conversations |-> c]

\* What a rolled-back connection leaves: an exception ends the process with
\* the transaction open, and the database file keeps its committed content.
Tables(t, c) ==
    /\ tbl_tickets' = IF pc' = "aborted" THEN db.tickets ELSE t
    /\ tbl_conversations' = IF pc' = "aborted" THEN db.conversations ELSE c
    /\ db' = db

\* The script starts: arguments parsed, connection opened, tables created if
\* missing, and the branch for the arguments entered.
Start(args, served) ==
    /\ pc = "idle"
    /\ mode' = Mode(args)
    /\ range' = IF Mode(args) = "range" THEN args.range ELSE None
    /\ error' = "none"
    /\ apiTickets' = IF Mode(args) \in SyncModes THEN served ELSE <<>>
    /\ pc' = IF Mode(args) \in SyncModes THEN "fetch_tickets"
             ELSE IF Mode(args) = "export" THEN "export" ELSE "commit"
    /\ page' = IF Mode(args) \in SyncModes THEN 1 ELSE 0
    /\ acc' = <<>>
    /\ probes' = 0
    /\ ticket_id' = 0
    /\ apiConvs' = <<>>
    /\ all_tickets' = <<>>
    /\ idx' = 0
    /\ convs' = <<>>
    /\ cidx' = 0
    /\ valid_ticket_ids' = <<>>
    /\ ticket_range_data' = <<>>
    /\ response' = None
    /\ probe' = None
    /\ log' = {}
    /\ events' = <<>>
    /\ exported' = <<>>
    /\ faults' = 0
    /\ call' = None
    /\ tbl_tickets' = db.tickets
    /\ tbl_conversations' = db.conversations
    /\ UNCHANGED <<env, db>>

\* One turn of fetch_tickets' loop, from the request to check_rate_limit's
\* test; the rest of the turn follows at once unless check_rate_limit pauses.
FetchTickets ==
    /\ pc = "fetch_tickets"
    /\ probe' = None
    /\ events' = Append(events, [op |-> "get_tickets", page |-> page])
    /\ \/ /\ faults < MaxFaults
          /\ faults' = faults + 1
          /\ response' = None                                \* requests.get raises
          /\ Raise("RequestException")
          /\ UNCHANGED log
       \/ \E s \in ErrorStatuses :
            /\ faults < MaxFaults
            /\ faults' = faults + 1
            /\ response' = [status |-> s, remaining |-> 0, body |-> "object"]
            /\ log' = log \cup {"Stopping at page"}
            /\ ReturnTickets(acc)
       \/ \E r \in Remainings(env) :
            /\ response' = [status |-> 200, remaining |-> r, body |-> "json"]
            /\ UNCHANGED <<log, faults>>
            /\ IF r <= args_limit
               THEN /\ pc' = "fetch_tickets_paused"
                    /\ UNCHANGED <<error, fetchVars, mainVars>>
               ELSE TicketsBody
    /\ Tables(tbl_tickets, tbl_conversations)
    /\ UNCHANGED <<runVars, exported, call>>

\* One turn of fetch_conversations' loop, likewise.
FetchConversations ==
    /\ pc = "fetch_conversations"
    /\ probe' = None
    /\ LET evs == Append(events, [op |-> "get_conversations", id |-> ticket_id,
                                  page |-> page])
       IN \/ /\ faults < MaxFaults
             /\ faults' = faults + 1
             /\ response' = None                             \* requests.get raises
             /\ ConversationsRequestException(evs)
          \/ \E r \in Remainings(env), s \in ErrorStatuses \cup {200},
                b \in {"json", "object", "undecodable"} :
               /\ b = "json" <=> s = 200
               /\ s # 200 => faults < MaxFaults
               /\ faults' = IF s # 200 THEN faults + 1 ELSE faults
               /\ response' = [status |-> s, remaining |-> r, body |-> b]
               /\ IF r <= args_limit
                  THEN /\ pc' = "fetch_conversations_paused"
                       /\ events' = evs
                       /\ UNCHANGED <<log, error, fetchVars, mainVars>>
                  ELSE ConversationsDecode(b, evs)
    /\ Tables(tbl_tickets, tbl_conversations)
    /\ UNCHANGED <<runVars, exported, call>>

\* One turn of check_rate_limit's while loop: sleep, probe, test.
Probe ==
    /\ pc \in {"fetch_tickets_paused", "fetch_conversations_paused"}
    /\ probes < MaxProbes
    /\ UNCHANGED <<response, faults>>
    /\ \/ /\ probe' = None                                   \* requests.get raises
          /\ IF pc = "fetch_tickets_paused"
             THEN /\ Raise("RequestException")
                  /\ UNCHANGED <<log, events>>
             ELSE ConversationsRequestException(events)
       \/ \E h \in ProbeHeaders :
            /\ probe' = [remaining |-> h[1], total |-> h[2]]
            /\ IF RateLimitReset(h[1], h[2])
               THEN IF pc = "fetch_tickets_paused"
                    THEN /\ TicketsBody
                         /\ UNCHANGED <<log, events>>
                    ELSE ConversationsDecode(response.body, events)
               ELSE /\ probes' = probes + 1
                    /\ UNCHANGED <<log, events, pc, error, ticket_id, page, acc,
                                   apiConvs, mainVars>>
    /\ Tables(tbl_tickets, tbl_conversations)
    /\ UNCHANGED <<runVars, exported, call>>

\* One turn of the for loop over the tickets (updated_since and all
\* branches) up to the call of fetch_conversations.
ProcessTicket ==
    /\ pc = "loop"
    /\ LET ticket == all_tickets[idx]
           stored == store_ticket(ticket, tbl_tickets)
       IN /\ events' = Append(events, [op |-> "store_ticket", id |-> ticket.id,
                                       stored |-> stored[2]])
          /\ call' = [op |-> "store_ticket", ticket |-> ticket, returned |-> stored[2]]
          /\ IF stored[2]
             THEN /\ CallFetchConversations(ticket.id)
                  /\ UNCHANGED mainVars
             ELSE NextTicket(idx + 1)                        \* continue
          /\ Tables(stored[1], tbl_conversations)
    /\ response' = None
    /\ probe' = None
    /\ UNCHANGED <<runVars, log, exported, faults>>

\* One turn of the loop over the conversations fetched for a ticket.
StoreConversation ==
    /\ pc = "store_conversations"
    /\ LET conversation == convs[cidx]
           tid == all_tickets[idx].id
       IN IF StoreConversationError(conversation) # "none"
          THEN /\ Raise(StoreConversationError(conversation))
               /\ Tables(tbl_tickets, tbl_conversations)
               /\ UNCHANGED <<events, call>>
          ELSE /\ events' = Append(events, [op |-> "store_conversation", id |-> tid,
                                            conversation |-> conversation])
               /\ call' = [op |-> "store_conversation", ticket_id |-> tid,
                           conversation |-> conversation]
               /\ IF cidx < Len(convs)
                  THEN /\ cidx' = cidx + 1
                       /\ UNCHANGED <<pc, error, fetchVars, all_tickets, idx, convs,
                                      valid_ticket_ids, ticket_range_data>>
                  ELSE NextTicket(idx + 1)
               /\ Tables(tbl_tickets,
                         store_conversation(tid, conversation, tbl_conversations))
    /\ response' = None
    /\ probe' = None
    /\ UNCHANGED <<runVars, log, exported, faults>>

\* fetch_ticket_range up to its first call of fetch_conversations.
FetchTicketRange ==
    /\ pc = "fetch_ticket_range"
    /\ IF range.low <= range.high
       THEN /\ RangeLoop(SelectIds(all_tickets, range.low, range.high), 1, <<>>)
            /\ UNCHANGED log
       ELSE /\ log' = log \cup {"Invalid range"}
            /\ RangeLoop(<<>>, 1, <<>>)
    /\ Tables(tbl_tickets, tbl_conversations)
    /\ response' = None
    /\ probe' = None
    /\ UNCHANGED <<runVars, events, exported, faults, call>>

\* One turn of the range branch's loop over fetch_ticket_range's result:
\* store_conversation(conversation['ticket_id'], conversation, cursor).
RangeStore ==
    /\ pc = "range_store"
    /\ LET conversation == ticket_range_data[idx]
       IN IF StoreConversationError(conversation) # "none"
          THEN /\ Raise(StoreConversationError(conversation))
               /\ Tables(tbl_tickets, tbl_conversations)
               /\ UNCHANGED <<events, call>>
          ELSE /\ events' = Append(events, [op |-> "store_conversation",
                                            id |-> conversation.ticket_id,
                                            conversation |-> conversation])
               /\ call' = [op |-> "store_conversation",
                           ticket_id |-> conversation.ticket_id,
                           conversation |-> conversation]
               /\ pc' = IF idx < Len(ticket_range_data) THEN "range_store" ELSE "commit"
               /\ idx' = idx + 1
               /\ UNCHANGED <<error, fetchVars, all_tickets, convs, cidx,
                              valid_ticket_ids, ticket_range_data>>
               /\ Tables(tbl_tickets,
                         store_conversation(conversation.ticket_id, conversation,
                                            tbl_conversations))
    /\ response' = None
    /\ probe' = None
    /\ UNCHANGED <<runVars, log, exported, faults>>

\* The export branch: a second connection reads the database file.
Export ==
    /\ pc = "export"
    /\ LET scan == ScanTickets(db.tickets)
           orders(i) == OrdersBy(db.conversations, RowsOf(db.conversations, scan[i].id))
       IN \E order \in [1..Len(scan) -> UNION {orders(i) : i \in 1..Len(scan)}] :
            /\ \A i \in 1..Len(scan) : order[i] \in orders(i)
            /\ exported' = TicketsData(db.tickets, db.conversations, order)
    /\ pc' = "commit"
    /\ Tables(tbl_tickets, tbl_conversations)
    /\ response' = None
    /\ probe' = None
    /\ UNCHANGED <<runVars, error, fetchVars, mainVars, log, events, faults, call>>

\* conn.commit(), conn.close() and the end of the script.
Commit ==
    /\ pc = "commit"
    /\ pc' = "done"
    /\ db' = [tickets |-> tbl_tickets, conversations |-> tbl_conversations]
    /\ response' = None
    /\ probe' = None
    /\ UNCHANGED <<tbl_tickets, tbl_conversations, runVars, error, fetchVars, mainVars,
                   log, events, exported, faults, call>>

\* A call of store_ticket on the open connection.
CallStoreTicket(ticket) ==
    /\ pc = "calls"
    /\ tbl_tickets' = store_ticket(ticket, tbl_tickets)[1]
    /\ call' = [op |-> "store_ticket", ticket |-> ticket,
                returned |-> store_ticket(ticket, tbl_tickets)[2]]
    /\ UNCHANGED <<env, db, tbl_conversations, pc, mode, range, error, apiTickets,
                   fetchVars, mainVars, response, probe, log, events, exported, faults>>

\* A call of store_conversation on the open connection.
CallStoreConversation(tid, conversation) ==
    /\ pc = "calls"
    /\ tbl_conversations' = store_conversation(tid, conversation, tbl_conversations)
    /\ call' = [op |-> "store_conversation", ticket_id |-> tid,
                conversation |-> conversation]
    /\ UNCHANGED <<env, db, tbl_tickets, pc, mode, range, error, apiTickets,
                   fetchVars, mainVars, response, probe, log, events, exported, faults>>

\* The process has ended, by its last statement or by an exception; nothing
\* of it is left but the database file, and the script can be started again.
Exit ==
    /\ pc \in {"done", "aborted"}
    /\ pc' = "idle"
    /\ tbl_tickets' = <<>>
    /\ tbl_conversations' = <<>>
    /\ mode' = "none"
    /\ range' = None
    /\ error' = "none"
    /\ apiTickets' = <<>>
    /\ all_tickets' = <<>>
    /\ idx' = 0
    /\ NoFetch
    /\ response' = None
    /\ probe' = None
    /\ convs' = <<>>
    /\ cidx' = 0
    /\ valid_ticket_ids' = <<>>
    /\ ticket_range_data' = <<>>
    /\ log' = {}
    /\ events' = <<>>
    /\ exported' = <<>>
    /\ faults' = 0
    /\ call' = None
    /\ UNCHANGED <<env, db>>

\* ------------------------------------------------- the script, run once
Init ==
    /\ NotStarted
    /\ env = "script"
    /\ pc = "idle"
    /\ db = EmptyDb

Run ==
    \/ \E args \in Invocations(env), served \in TicketLists(env) : Start(args, served)
    \/ FetchTickets
    \/ ProcessTicket
    \/ FetchConversations
    \/ StoreConversation
    \/ FetchTicketRange
    \/ RangeStore
    \/ Export
    \/ Commit

Next == Run

Spec == Init /\ [][Next]_vars

\* ------------------------- the script run once, the quota near the limit
InitQuota ==
    /\ NotStarted
    /\ env = "quota"
    /\ pc = "idle"
    /\ db = EmptyDb

NextQuota == Run \/ Probe

SpecQuota == InitQuota /\ [][NextQuota]_vars

\* -------------------------------------- store calls on one connection
InitStore ==
    /\ NotStarted
    /\ env = "store"
    /\ pc = "calls"
    /\ db = EmptyDb

NextStore ==
    \/ \E ticket \in TicketSamples(env) : CallStoreTicket(ticket)
    \/ \E tid \in TicketIds, conversation \in ConversationSamples(env) :
         CallStoreConversation(tid, conversation)

SpecStore == InitStore /\ [][NextStore]_vars

\* --------------------------------- an export run on a stored database
InitExport ==
    /\ NotStarted
    /\ env = "export"
    /\ pc = "idle"
    /\ db \in Databases(env)

NextExport ==
    \/ \E args \in Invocations(env) : Start(args, <<>>)
    \/ Export
    \/ Commit

SpecExport == InitExport /\ [][NextExport]_vars

\* ------------------------------- sync runs of the script, one after another
InitRuns ==
    /\ NotStarted
    /\ env = "runs"
    /\ pc = "idle"
    /\ db = EmptyDb

NextRuns ==
    \/ \E args \in Invocations(env), served \in TicketLists(env) : Start(args, served)
    \/ FetchTickets
    \/ ProcessTicket
    \/ FetchConversations
    \/ StoreConversation
    \/ Commit
    \/ Exit

SpecRuns == InitRuns /\ [][NextRuns]_vars

\* ------------------------------------------------------- properties: store
\* Every row of tbl is a row of after, at the same position.
Keeps(tbl, after) ==
    /\ Len(after) >= Len(tbl)
    /\ \A i \in 1..Len(tbl) : after[i] = tbl[i]

TicketRowsWithId(tbl, id) == {i \in 1..Len(tbl) : tbl[i].id = id}

ConversationRowsWithId(tbl, id) == {i \in 1..Len(tbl) : tbl[i].conversation_id = id}

\* What the description column gets for each of the sample texts.
StoredDescription(text) ==
    IF text = MailText THEN <<"b", LF, LF, "c">> ELSE text

StoreTicketCalled == call # None /\ call.op = "store_ticket"

StoreConversationCalled == call # None /\ call.op = "store_conversation"

\* C1: store_ticket is idempotent.  A call for a ticket whose id is a row of
\* table tickets returns False and leaves the table as it is, whatever the
\* fields of the ticket passed; a call for an id that is no row returns True
\* and appends one row with the fields of the ticket passed.  So after any
\* sequence of calls every id has at most one row, and a row stays as the
\* first call for its id wrote it.
C1_StoreTicketIdempotent ==
    /\ [](\A id \in TicketIds : Cardinality(TicketRowsWithId(tbl_tickets, id)) <= 1)
    /\ [][Keeps(tbl_tickets, tbl_tickets')]_vars
    /\ [][StoreTicketCalled' =>
            LET ticket == call'.ticket
            IN IF TicketRowsWithId(tbl_tickets, ticket.id) # {}
               THEN /\ call'.returned = FALSE
                    /\ tbl_tickets' = tbl_tickets
               ELSE /\ call'.returned = TRUE
                    /\ Len(tbl_tickets') = Len(tbl_tickets) + 1
                    /\ LET row == tbl_tickets'[Len(tbl_tickets')]
                       IN /\ row.id = ticket.id
                          /\ row.updated_at = ticket.updated_at
                          /\ row.description = StoredDescription(ticket.description_text)
                          /\ row.other_ticket_info = ticket]_vars

\* store_ticket was called for an id whose row holds other field values than
\* the ticket passed, and returned False.
C1_Witness ==
    /\ StoreTicketCalled
    /\ call.returned = FALSE
    /\ Len(tbl_tickets) = 2
    /\ \E i \in 1..Len(tbl_tickets) :
         /\ tbl_tickets[i].id = call.ticket.id
         /\ tbl_tickets[i].updated_at # call.ticket.updated_at
         /\ tbl_tickets[i].description # StoredDescription(call.ticket.description_text)

\* C2: after any sequence of store_conversation calls table conversations
\* holds at most one row per conversation id.  A call for a conversation id
\* that is a row inserts nothing and changes no row, whatever ticket_id and
\* body it is passed; a call for an id that is no row appends one row.
C2_OneRowPerConversation ==
    /\ [](\A id \in ConvIds :
            Cardinality(ConversationRowsWithId(tbl_conversations, id)) <= 1)
    /\ [][Keeps(tbl_conversations, tbl_conversations')]_vars
    /\ [][StoreConversationCalled' =>
            LET conversation == call'.conversation
            IN IF ConversationRowsWithId(tbl_conversations, conversation.id) # {}
               THEN tbl_conversations' = tbl_conversations
               ELSE /\ Len(tbl_conversations') = Len(tbl_conversations) + 1
                    /\ LET row == tbl_conversations'[Len(tbl_conversations')]
                       IN /\ row.conversation_id = conversation.id
                          /\ row.ticket_id = call'.ticket_id
                          /\ row.created_at = conversation.created_at
                          /\ row.body = conversation.body_text]_vars

\* store_conversation was called for a conversation id whose row has another
\* ticket_id and another body than those passed.
C2_Witness ==
    /\ StoreConversationCalled
    /\ Len(tbl_conversations) = 2
    /\ \E i \in 1..Len(tbl_conversations) :
         /\ tbl_conversations[i].conversation_id = call.conversation.id
         /\ tbl_conversations[i].ticket_id # call.ticket_id
         /\ tbl_conversations[i].body # call.conversation.body_text

\* ------------------------------------------------ properties: pagination
EventsOf(ops) == SelectSeq(events, LAMBDA e : e.op \in ops)

\* The number of the non-empty pages of a collection.
PagesOf(list) == (Len(list) + PerPage - 1) \div PerPage

FetchTicketsReturned ==
    /\ mode \in SyncModes
    /\ pc \notin {"idle", "fetch_tickets", "fetch_tickets_paused"}
    /\ ~(pc = "aborted" /\ all_tickets = <<>> /\ EventsOf({"store_ticket"}) = <<>>
         /\ EventsOf({"get_conversations"}) = <<>>)

\* C3: when all pages are served with status 200, a paginated fetch requests
\* the pages 1, 2, ..., n+1 in this order, n being the number of non-empty
\* pages, and returns the concatenation of the pages 1..n: fetch_tickets the
\* server's ticket list, fetch_conversations the server's conversations of
\* the ticket.
C3_SequentialPages ==
    faults = 0 =>
      /\ FetchTicketsReturned =>
           /\ EventsOf({"get_tickets"}) =
                [p \in 1..(PagesOf(apiTickets) + 1) |-> [op |-> "get_tickets", page |-> p]]
           /\ all_tickets = apiTickets
      /\ \A k \in DOMAIN events :
           events[k].op = "conversations" =>
             LET n == PagesOf(events[k].served)
             IN /\ k > n + 1
                /\ \A p \in 1..(n + 1) :
                     events[k - (n + 1) + p] =
                       [op |-> "get_conversations", id |-> events[k].id, page |-> p]
                /\ events[k - (n + 1)].op # "get_conversations"
                /\ events[k].conversations = events[k].served

\* --------------------------------------------- properties: the sync loop
StoreTicketAt == {k \in DOMAIN events : events[k].op = "store_ticket"}

\* The position of the first store_ticket call after position k, or past the
\* end of events.
NextStoreTicket(k) ==
    LET later == {j \in StoreTicketAt : j > k}
    IN IF later = {} THEN Len(events) + 1
       ELSE CHOOSE j \in later : \A i \in later : j <= i

OpRank(op) ==
    CASE op = "get_conversations" -> 1
      [] op \in {"request_error", "conversations"} -> 2
      [] op = "store_conversation" -> 3
      [] OTHER -> 0

\* C4: in the updated_since and all branches the tickets fetched are
\* processed in the order of the list.  After a store_ticket that returned
\* False nothing is requested or stored for the ticket.  After one that
\* returned True the pages of the ticket's conversations are requested, then
\* store_conversation is called with the ticket's id on each conversation
\* fetch_conversations returned (all the server holds, when every request
\* succeeded), in order, and only then the next ticket is processed.
C4_TicketLoop ==
    mode \in {"updated_since", "all"} =>
      LET st == EventsOf({"store_ticket"})
      IN /\ Len(st) <= Len(all_tickets)
         /\ \A n \in 1..Len(st) : st[n].id = all_tickets[n].id
         /\ pc \in {"commit", "done"} => Len(st) = Len(all_tickets)
         /\ \A k \in StoreTicketAt :
              LET seg == SubSeq(events, k + 1, NextStoreTicket(k) - 1)
                  Ops(o) == SelectSeq(seg, LAMBDA e : e.op = o)
                  gets == Ops("get_conversations")
                  rets == Ops("conversations")
                  stores == Ops("store_conversation")
                  over == NextStoreTicket(k) <= Len(events) \/ pc \in {"commit", "done"}
              IN IF ~events[k].stored THEN seg = <<>>
                 ELSE /\ \A i \in DOMAIN seg :
                           OpRank(seg[i].op) > 0 /\ seg[i].id = events[k].id
                      /\ \A i, j \in DOMAIN seg :
                           i < j => OpRank(seg[i].op) <= OpRank(seg[j].op)
                      /\ \A i \in DOMAIN gets : gets[i].page = i
                      /\ Len(rets) <= 1
                      /\ Len(stores) > 0 => Len(rets) = 1
                      /\ Len(rets) = 1 =>
                           /\ Len(stores) <= Len(rets[1].conversations)
                           /\ \A i \in DOMAIN stores :
                                stores[i].conversation = rets[1].conversations[i]
                           /\ faults = 0 => rets[1].conversations = rets[1].served
                      /\ over => /\ Len(rets) = 1
                                 /\ Len(stores) = Len(rets[1].conversations)

\* A finished run in which one ticket was stored with two conversations and
\* a later ticket of the list was found present.
C4_Witness ==
    /\ mode \in {"updated_since", "all"}
    /\ pc = "done"
    /\ Len(EventsOf({"store_conversation"})) >= 2
    /\ \E k \in StoreTicketAt : ~events[k].stored

\* ------------------------------------------- properties: fetch_ticket_range
\* fetch_ticket_range has returned to the range branch.
RangeReturned ==
    /\ mode = "range"
    /\ \/ pc \in {"range_store", "commit", "done"}
       \/ pc = "aborted" /\ error = "KeyError"

\* The ids of all_tickets within [low, high], in the order of the list.
InRange(low, high) ==
    LET within == SelectSeq(all_tickets, LAMBDA t : low <= t.id /\ t.id <= high)
    IN [i \in 1..Len(within) |-> within[i].id]

InvalidRangeHandled ==
    /\ EventsOf({"get_conversations"}) = <<>>
    /\ "Invalid range" \in log
    /\ ticket_range_data = <<>>

\* C5 as the specification states it: with low <= high the result has one
\* entry for every ticket of all_tickets with low <= id <= high, in the order
\* of the list, with the conversations fetched for it; with low > high
\* nothing is requested, an error is logged and the result is empty.
C5_Stated ==
    RangeReturned =>
      IF range.low <= range.high
      THEN LET ids == InRange(range.low, range.high)
               rets == EventsOf({"conversations"})
           IN /\ Len(ticket_range_data) = Len(ids)
              /\ \A i \in 1..Len(ids) :
                   /\ ticket_range_data[i].ticket_id = ids[i]
                   /\ i <= Len(rets)
                   /\ ticket_range_data[i].conversations = rets[i].conversations
      ELSE InvalidRangeHandled

\* C5: with low <= high fetch_ticket_range calls fetch_conversations once for
\* every ticket of all_tickets with low <= id <= high, in the order of the
\* list, and its result has one entry, in that order, for each of these calls
\* that returned, with the conversations it returned; a call that raised a
\* RequestException leaves no entry.  With low > high nothing is requested,
\* an error is logged and the result is empty.
C5_RangeEntries ==
    RangeReturned =>
      IF range.low <= range.high
      THEN LET ids == InRange(range.low, range.high)
               outcomes == EventsOf({"conversations", "request_error"})
               rets == EventsOf({"conversations"})
           IN /\ Len(outcomes) = Len(ids)
              /\ \A i \in 1..Len(ids) : outcomes[i].id = ids[i]
              /\ Len(ticket_range_data) = Len(rets)
              /\ \A i \in 1..Len(rets) :
                   /\ ticket_range_data[i].ticket_id = rets[i].id
                   /\ ticket_range_data[i].conversations = rets[i].conversations
                   /\ faults = 0 => rets[i].conversations = rets[i].served
      ELSE InvalidRangeHandled

\* fetch_ticket_range has returned one entry although two tickets were in
\* the range: the fetch for the other one raised a RequestException.
C5_Witness ==
    /\ RangeReturned
    /\ range.low <= range.high
    /\ Len(InRange(range.low, range.high)) = 2
    /\ Len(ticket_range_data) = 1
    /\ Len(EventsOf({"request_error"})) = 1

\* C6: a range run with low <= high whose requests all succeed does not fail
\* when a ticket is in the range, and when it is done every conversation
\* fetched for a ticket in the range is a row of table conversations, with
\* its conversation id and the ticket's id.
C6_RangeStores ==
    (mode = "range" /\ range.low <= range.high /\ faults = 0
       /\ pc \in {"done", "aborted"}) =>
      /\ valid_ticket_ids # <<>> => pc = "done"
      /\ pc = "done" =>
           \A k \in DOMAIN events :
             events[k].op = "conversations" =>
               \A c \in Range(events[k].conversations) :
                 \E i \in 1..Len(db.conversations) :
                   /\ db.conversations[i].conversation_id = c.id
                   /\ db.conversations[i].ticket_id = events[k].id

\* ------------------------------------------------ properties: rate limit
FetchPcs == {"fetch_tickets", "fetch_conversations"}

PausedPcs == {"fetch_tickets_paused", "fetch_conversations_paused"}

\* C7: check_rate_limit, called with the remaining quota of a response,
\* returns at once and without a probe when remaining > limit, and pauses
\* when remaining <= limit.  Paused, it returns at the first probe that
\* reports remaining >= 90% of total, and after a probe that reports less it
\* waits for the next one, however many have reported less before.
C7_CheckRateLimit ==
    /\ [][(pc \in FetchPcs /\ response' # None
             /\ (pc = "fetch_conversations" \/ response'.status = 200)) =>
            /\ probe' = None
            /\ pc' \in PausedPcs <=> response'.remaining <= args_limit]_vars
    /\ [][(pc \in PausedPcs /\ probe' # None) =>
            IF 10 * probe'.remaining >= 9 * probe'.total
            THEN pc' \notin PausedPcs
            ELSE /\ pc' = pc
                 /\ probes' = probes + 1
                 /\ <<page, acc, events>>' = <<page, acc, events>>]_vars

\* check_rate_limit has returned at a probe that reported exactly 90% of the
\* total.
C7_Witness ==
    /\ pc \notin PausedPcs
    /\ pc # "aborted"
    /\ probe # None
    /\ probe.remaining = 4500

\* C8: a paginated fetch stops at the first response with a status other
\* than 200, and never requests a page beyond the ceiling of 300.
C8_FetchStops ==
    /\ (response # None /\ response.status # 200) =>
         /\ pc # "fetch_tickets"
         /\ ~(pc = "fetch_conversations" /\ page > 1)
    /\ \A k \in DOMAIN events :
         events[k].op \in {"get_tickets", "get_conversations"} =>
           events[k].page <= max_pages

\* C9: a RequestException raised while the conversations of a ticket are
\* fetched is caught and logged, in every sync mode: it does not end the run.
C9_ConversationErrorsCaught ==
    EventsOf({"request_error"}) # <<>> =>
      /\ error # "RequestException"
      /\ "Error fetching data" \in log

\* ----------------------------------------------------- properties: export
\* C10: an export run requests nothing from the API and leaves both tables
\* as they are.  tickets_data has one record for every row of table tickets,
\* and the conversations of a record are the rows of table conversations
\* with the record's ticket id whose persona is none of the two internal
\* ones (those of private conversations), in ascending order of created_at.
C10_Export ==
    /\ [](events = <<>> /\ response = None /\ probe = None)
    /\ [][db' = db]_vars
    /\ [](pc # "idle" =>
            tbl_tickets = db.tickets /\ tbl_conversations = db.conversations)
    /\ [](\A i, p \in BOOLEAN :
            Persona(i, p) \in {"Aqua Development Discussion", "Aqua Internal Discussion"}
              <=> p)
    /\ [](pc \in {"commit", "done"} =>
            /\ Len(exported) = Len(db.tickets)
            /\ \A i \in 1..Len(db.tickets) :
                 Cardinality({k \in DOMAIN exported :
                                 exported[k].ticket_id = db.tickets[i].id}) = 1
            /\ \A k \in DOMAIN exported :
                 LET record == exported[k]
                     kept == {j \in 1..Len(db.conversations) :
                                 /\ db.conversations[j].ticket_id = record.ticket_id
                                 /\ db.conversations[j].persona \notin
                                      {"Aqua Development Discussion",
                                       "Aqua Internal Discussion"}}
                 IN /\ Len(record.conversations) = Cardinality(kept)
                    /\ \A j \in kept :
                         \E m \in DOMAIN record.conversations :
                           record.conversations[m] =
                             [conversation_id |-> db.conversations[j].conversation_id,
                              created_at |-> db.conversations[j].created_at,
                              persona |-> db.conversations[j].persona,
                              body |-> db.conversations[j].body]
                    /\ \A m, n \in DOMAIN record.conversations :
                         m < n => record.conversations[m].created_at
                                    <= record.conversations[n].created_at)

\* An export of a ticket with two conversations, of which the one stored
\* first was created last, and of a private conversation left out.
C10_Witness ==
    /\ pc = "done"
    /\ mode = "export"
    /\ Len(db.conversations) = 2
    /\ db.conversations[1].created_at > db.conversations[2].created_at
    /\ \E k \in DOMAIN exported :
         /\ Len(exported[k].conversations) = 1
         /\ Cardinality(RowsOf(db.conversations, exported[k].ticket_id)) = 2

\* ------------------------------------------------- properties: the commit
\* The rows of the tickets table of database d from position n + 1 on.
NewTicketRows(d, n) == {d.tickets[i] : i \in (n + 1)..Len(d.tickets)}

\* C11: the inserts of a sync run reach the database file at one step only,
\* the commit at the end of the run; a run that an exception ends leaves the
\* file as it found it.  No step removes or changes a committed row.  Every
\* ticket row a commit adds was inserted by a store_ticket call of this run,
\* after which fetch_conversations returned for the ticket, and the same
\* commit leaves a row with the ticket's id for every conversation it
\* returned.  So in every committed state, after any sequence of finished and
\* aborted updated_since and all runs, every ticket row has the conversations
\* fetched for it by the run that inserted it.
C11_CommitOnce ==
    /\ [][db' # db => pc = "commit" /\ pc' = "done"]_vars
    /\ [][pc' = "aborted" =>
            /\ db' = db
            /\ tbl_tickets' = db.tickets
            /\ tbl_conversations' = db.conversations]_vars
    /\ [][pc = "idle" /\ pc' # "idle" =>
            tbl_tickets' = db.tickets /\ tbl_conversations' = db.conversations]_vars
    /\ [][/\ Keeps(db.tickets, db'.tickets)
          /\ Keeps(db.conversations, db'.conversations)]_vars
    /\ [][\A row \in NewTicketRows(db', Len(db.tickets)) :
            /\ \E k \in DOMAIN events :
                 events[k] = [op |-> "store_ticket", id |-> row.id, stored |-> TRUE]
            /\ \E k \in DOMAIN events :
                 events[k].op = "conversations" /\ events[k].id = row.id
            /\ \A k \in DOMAIN events :
                 (events[k].op = "conversations" /\ events[k].id = row.id) =>
                   \A c \in Range(events[k].conversations) :
                     \E i \in 1..Len(db'.conversations) :
                       /\ db'.conversations[i].conversation_id = c.id
                       /\ db'.conversations[i].ticket_id = row.id]_vars

\* A run has committed a ticket with two conversations, and a later run, in
\* which another ticket and one of its conversations were inserted, was
\* ended by an exception: the file holds the first run's rows only.
C11_Witness ==
    /\ pc = "aborted"
    /\ Len(db.tickets) = 1
    /\ Len(db.conversations) = 2
    /\ \E k \in DOMAIN events :
         /\ events[k].op = "store_conversation"
         /\ events[k].id # db.tickets[1].id
    /\ tbl_tickets = db.tickets
    /\ tbl_conversations = db.conversations
====
